---- MODULE Spec2Model ----
(***************************************************************************)
(* monkey-lang: the instruction encoder (compiler/code.rs), the symbol     *)
(* table (compiler/symbol_table.rs) and the bytecode compiler              *)
(* (compiler/compiler.rs), as state machines.                              *)
(*                                                                         *)
(*   SpecCode  make_op followed by two_u8_to_usize on one OpCode value     *)
(*   SpecSym   a SymbolTable under define / resolve calls                  *)
(*   Spec      Compiler::from_source on a parsed program, one iteration    *)
(*             of the top-level statement loop per step                    *)
(***************************************************************************)
EXTENDS Integers, Sequences, FiniteSets, TLC

VARIABLES
    \* --- code.rs: one encode / decode experiment
    code_pc,        \* "idle" | "encoded" | "decoded"
    opcode,         \* the OpCode value handed to make_op
    op_bytes,       \* Vec<u8> returned by make_op
    operand_out,    \* usize returned by two_u8_to_usize
    \* --- symbol_table.rs: SymbolTable fields (also the Compiler's table)
    symbols,        \* HashMap<String, Symbol>
    next_index,     \* u16
    \* --- symbol_table.rs: bookkeeping of the calls made on the table
    sym_calls,      \* define calls so far, in call order: <<[name, ret]>>
    sym_result,     \* the last call: [op, name, ret]
    \* --- compiler.rs: Compiler fields and the position of from_source
    ast,            \* Vec<Statement> returned by parse
    done,           \* number of top-level statements compiled so far
    status,         \* "idle" | "compiling" | "done" | "panicked"
    instructions,   \* byte_code.instructions
    constants,      \* byte_code.constants
    \* --- vm.rs: Vm fields (instructions and constants are moved into the
    \* Vm from the ByteCode) and the position of run
    stack,          \* the slots of [Object; STACK_SIZE] written so far
    stack_pointer,  \* usize
    ip,             \* the local ip of run
    vm_status,      \* "idle" | "new" | "running" | "finished" | "panicked"
    vm_error,       \* the panic message, "" while there is none
    overflow_checks, \* the build: TRUE debug (checked), FALSE release (wrapping)
    previous        \* the outcome of an earlier Vm on the same ByteCode, if any

codeVars == <<code_pc, opcode, op_bytes, operand_out>>
symVars  == <<symbols, next_index>>
symHist  == <<sym_calls, sym_result>>
compVars == <<ast, done, status, instructions, constants>>
vmVars   == <<stack, stack_pointer, ip, vm_status, vm_error, overflow_checks,
              previous>>
vars == <<code_pc, opcode, op_bytes, operand_out, symbols, next_index,
          sym_calls, sym_result, ast, done, status, instructions, constants,
          stack, stack_pointer, ip, vm_status, vm_error, overflow_checks,
          previous>>

(***************************************************************************)
(* Machine integers                                                        *)
(***************************************************************************)
U8  == 256
U16 == 65536

\* bitwise or of two naturals, bit by bit
RECURSIVE BitOr(_, _)
BitOr(a, b) ==
    IF a = 0 THEN b
    ELSE IF b = 0 THEN a
    ELSE (IF (a % 2 = 1) \/ (b % 2 = 1) THEN 1 ELSE 0)
         + 2 * BitOr(a \div 2, b \div 2)

(***************************************************************************)
(* compiler/code.rs                                                        *)
(***************************************************************************)
NoOperandOps == {"OpAdd", "OpSub", "OpMul", "OpDiv", "OpPop", "OpTrue",
                 "OpFalse", "OpGreater", "OpLess", "OpEqual", "OpNotEqual",
                 "OpBang", "OpMinus"}
OperandOps == {"OpConstant", "OpJmp", "OpJmpIfFalse", "OpSetGlobal",
               "OpGetGlobal"}

\* enum OpCode: the operand-bearing variants carry a u16
OpCode(operands) ==
    {[op |-> n] : n \in NoOperandOps}
    \cup {[op |-> n, operand |-> v] : n \in OperandOps, v \in operands}

Op(n) == [op |-> n]
OpArg(n, v) == [op |-> n, operand |-> v]

\* (variant of make_op_operand with the operand low byte first)
make_op_operand_mut(tag, operand) ==
    <<tag, operand % U8, (operand \div U8) % U8>>
\* the three bytes of an operand-bearing arm of make_op:
\* vec![tag], push((operand >> 8) as u8), push(operand as u8)
make_op_operand(tag, operand) ==
    <<tag, (operand \div U8) % U8, operand % U8>>

make_op(oc) ==
    CASE oc.op = "OpConstant"   -> make_op_operand(1, oc.operand)
      [] oc.op = "OpAdd"        -> <<2>>
      [] oc.op = "OpSub"        -> <<3>>
      [] oc.op = "OpMul"        -> <<4>>
      [] oc.op = "OpDiv"        -> <<5>>
      [] oc.op = "OpPop"        -> <<6>>
      [] oc.op = "OpTrue"       -> <<7>>
      [] oc.op = "OpFalse"      -> <<8>>
      [] oc.op = "OpGreater"    -> <<9>>
      [] oc.op = "OpLess"       -> <<10>>
      [] oc.op = "OpEqual"      -> <<11>>
      [] oc.op = "OpNotEqual"   -> <<12>>
      [] oc.op = "OpBang"       -> <<13>>
      [] oc.op = "OpMinus"      -> <<14>>
      [] oc.op = "OpJmp"        -> make_op_operand(15, oc.operand)
      [] oc.op = "OpJmpIfFalse" -> make_op_operand(16, oc.operand)
      [] oc.op = "OpSetGlobal"  -> make_op_operand(17, oc.operand)
      [] oc.op = "OpGetGlobal"  -> make_op_operand(18, oc.operand)

\* (variant of two_u8_to_usize shifting the second byte instead of the first)
two_u8_to_usize_mut(int_one, int_two) == BitOr(int_one, int_two * U8)
\* ((int_one as usize) << 8) | int_two as usize
two_u8_to_usize(int_one, int_two) == BitOr(int_one * U8, int_two)

(***************************************************************************)
(* compiler/symbol_table.rs                                                *)
(***************************************************************************)
GLOBAL == "GLOBAL"
None == [none |-> TRUE]
Some(v) == [some |-> v]

Symbol(index, scope) == [index |-> index, scope |-> scope]

\* SymbolTable::new
SymbolTable_new == [symbols |-> << >>, next_index |-> 0]

\* HashMap::insert
Insert(map, key, value) ==
    [k \in (DOMAIN map) \cup {key} |-> IF k = key THEN value ELSE map[k]]

\* (variant of define returning next_index after the increment)
define_mut(table, name, scope) ==
    LET incremented == (table.next_index + 1) % U16
    IN  [table |-> [symbols |-> Insert(table.symbols, name,
                                       Symbol(table.next_index, scope)),
                    next_index |-> incremented],
         ret |-> incremented]
\* SymbolTable::define: the table after the call and the value returned.
\* next_index is a u16 and the arithmetic is kept at that width (the wrapping
\* of a build without overflow checks; MaxDefines and MaxLets stay far below).
define(table, name, scope) ==
    LET incremented == (table.next_index + 1) % U16
    IN  [table |-> [symbols |-> Insert(table.symbols, name,
                                       Symbol(table.next_index, scope)),
                    next_index |-> incremented],
         ret |-> (incremented + U16 - 1) % U16]

\* (variant of resolve returning the index handed out last, whatever the name)
resolve_mut(table, name) ==
    IF name \in DOMAIN table.symbols
        THEN Some(table.next_index - 1)
        ELSE None
\* SymbolTable::resolve
resolve(table, name) ==
    IF name \in DOMAIN table.symbols
        THEN Some(table.symbols[name].index)
        ELSE None

(***************************************************************************)
(* parser.rs: the syntax tree handed to the compiler                       *)
(***************************************************************************)
Expression_Int(val) == [type |-> "Int", val |-> val]
Boolean(val) == [type |-> "Boolean", bool |-> val]
Ident(name) == [type |-> "Ident", name |-> name]
Infix(left, op, right) ==
    [type |-> "Infix", left |-> left, op |-> op, right |-> right]
Prefix(prefix, value) == [type |-> "Prefix", prefix |-> prefix, value |-> value]
If(condition, consequence, alternative) ==
    [type |-> "If", condition |-> condition, consequence |-> consequence,
     alternative |-> alternative]

Let(name, value) == [type |-> "Let", name |-> name, value |-> value]
Return(value) == [type |-> "Return", value |-> value]
ExpressionStatement(expr) == [type |-> "ExpressionStatement", expr |-> expr]

Operator == {"PLUS", "MINUS", "MULTIPLY", "DIVIDE", "GREATER", "LESS",
             "EQUAL", "NEQUAL"}
PrefixOp == {"BANG", "MINUS"}

(***************************************************************************)
(* evaluator.rs: the runtime values of the constant pool                   *)
(***************************************************************************)
Object_Int(val) == [type |-> "Int", val |-> val]

(***************************************************************************)
(* compiler/compiler.rs                                                    *)
(*                                                                         *)
(* A compiler value c is [instructions, constants, table, panicked]:       *)
(* byte_code, symbol_table, and whether a panic has unwound the call.      *)
(***************************************************************************)
Placeholder == 9999

\* Compiler { byte_code: ByteCode::new(), symbol_table: SymbolTable::new() }
Compiler_new ==
    [instructions |-> << >>, constants |-> << >>,
     table |-> SymbolTable_new, panicked |-> FALSE]

Panic(c) == [c EXCEPT !.panicked = TRUE]

\* (variant of add_constant that reuses the entry of an equal constant)
add_constant_mut(c, object) ==
    IF \E i \in 1..Len(c.constants) : c.constants[i] = object
    THEN [c |-> c,
          ret |-> (CHOOSE i \in 1..Len(c.constants) : c.constants[i] = object) - 1]
    ELSE [c |-> [c EXCEPT !.constants = Append(@, object)],
          ret |-> Len(c.constants) % U16]
\* add_constant: push, return (len - 1) as u16
add_constant(c, object) ==
    [c |-> [c EXCEPT !.constants = Append(@, object)],
     ret |-> ((Len(c.constants) + 1) - 1) % U16]

\* add_instruction: extend by make_op, return the old length as u16
add_instruction(c, op_code) ==
    [c |-> [c EXCEPT !.instructions = @ \o make_op(op_code)],
     ret |-> Len(c.instructions) % U16]

\* is_last_instruction_pop: instructions.last() == Some(&make_op(OpPop)[0])
is_last_instruction_pop(c) ==
    /\ Len(c.instructions) > 0
    /\ c.instructions[Len(c.instructions)] = make_op(Op("OpPop"))[1]

\* remove_last_pop: instructions.pop()
remove_last_pop(c) ==
    IF Len(c.instructions) = 0 THEN c
    ELSE [c EXCEPT !.instructions = SubSeq(@, 1, Len(@) - 1)]

\* (variant of replace_op writing the tag only)
replace_op_mut(c, pos, oc) ==
    LET bytes == make_op(oc)
    IN  IF pos + Len(bytes) > Len(c.instructions) THEN Panic(c)
        ELSE [c EXCEPT !.instructions =
                [j \in 1..Len(@) |->
                    IF j = pos + 1 THEN bytes[1] ELSE @[j]]]
\* replace_op: overwrite instructions[pos + i] with byte i of make_op(opcode);
\* pos is a 0-based offset, an index past the end panics
replace_op(c, pos, oc) ==
    LET bytes == make_op(oc)
    IN  IF pos + Len(bytes) > Len(c.instructions) THEN Panic(c)
        ELSE [c EXCEPT !.instructions =
                [j \in 1..Len(@) |->
                    IF j > pos /\ j <= pos + Len(bytes)
                        THEN bytes[j - pos] ELSE @[j]]]

\* (variant mapping > and < to each other's opcode)
InfixOpCode_mut(op) ==
    CASE op = "PLUS"     -> Op("OpAdd")
      [] op = "MINUS"    -> Op("OpSub")
      [] op = "MULTIPLY" -> Op("OpMul")
      [] op = "DIVIDE"   -> Op("OpDiv")
      [] op = "GREATER"  -> Op("OpLess")
      [] op = "LESS"     -> Op("OpGreater")
      [] op = "EQUAL"    -> Op("OpEqual")
      [] op = "NEQUAL"   -> Op("OpNotEqual")

\* the opcode of an infix operator (compile_expression, match op)
InfixOpCode(op) ==
    CASE op = "PLUS"     -> Op("OpAdd")
      [] op = "MINUS"    -> Op("OpSub")
      [] op = "MULTIPLY" -> Op("OpMul")
      [] op = "DIVIDE"   -> Op("OpDiv")
      [] op = "GREATER"  -> Op("OpGreater")
      [] op = "LESS"     -> Op("OpLess")
      [] op = "EQUAL"    -> Op("OpEqual")
      [] op = "NEQUAL"   -> Op("OpNotEqual")

\* the opcode of a prefix operator (compile_expression, match prefix)
PrefixOpCode(prefix) ==
    CASE prefix = "MINUS" -> Op("OpMinus")
      [] prefix = "BANG"  -> Op("OpBang")

\* "if self.is_last_instruction_pop() { self.remove_last_pop(); }"
elide_last_pop(c) ==
    IF is_last_instruction_pop(c) THEN remove_last_pop(c) ELSE c

RECURSIVE compile_statements(_, _)
RECURSIVE compile_statement(_, _)
RECURSIVE compile_expression(_, _)

\* (variant of compile_alternative taking the JumpIfFalse target before the
\* Jump is appended)
compile_alternative_mut(c, jmp_false, alternative) ==
    IF Len(alternative) = 0
    THEN LET new_jmp_pos == Len(c.instructions) % U16
         IN  replace_op(c, jmp_false, OpArg("OpJmpIfFalse", new_jmp_pos))
    ELSE LET jmp == Len(c.instructions)
             jmp_false_pos == Len(c.instructions) % U16
             c1 == add_instruction(c, OpArg("OpJmp", Placeholder)).c
             c2 == replace_op(c1, jmp_false,
                              OpArg("OpJmpIfFalse", jmp_false_pos))
             c3 == IF c2.panicked THEN c2
                   ELSE compile_statements(c2, alternative)
             c4 == IF c3.panicked THEN c3 ELSE elide_last_pop(c3)
             jmp_pos == Len(c4.instructions) % U16
         IN  IF c4.panicked THEN c4
             ELSE replace_op(c4, jmp, OpArg("OpJmp", jmp_pos))
\* the tail of Expression::If after the consequence has been compiled
compile_alternative(c, jmp_false, alternative) ==
    IF Len(alternative) = 0
    THEN LET new_jmp_pos == Len(c.instructions) % U16
         IN  replace_op(c, jmp_false, OpArg("OpJmpIfFalse", new_jmp_pos))
    ELSE LET jmp == Len(c.instructions)
             c1 == add_instruction(c, OpArg("OpJmp", Placeholder)).c
             jmp_false_pos == Len(c1.instructions) % U16
             c2 == replace_op(c1, jmp_false,
                              OpArg("OpJmpIfFalse", jmp_false_pos))
             c3 == IF c2.panicked THEN c2
                   ELSE compile_statements(c2, alternative)
             c4 == IF c3.panicked THEN c3 ELSE elide_last_pop(c3)
             jmp_pos == Len(c4.instructions) % U16
         IN  IF c4.panicked THEN c4
             ELSE replace_op(c4, jmp, OpArg("OpJmp", jmp_pos))

compile_expression(c, expr) ==
    CASE expr.type = "Int" ->
            LET added == add_constant(c, Object_Int(expr.val))
            IN  add_instruction(added.c, OpArg("OpConstant", added.ret)).c
      [] expr.type = "Boolean" ->
            IF expr.bool THEN add_instruction(c, Op("OpTrue")).c
                        ELSE add_instruction(c, Op("OpFalse")).c
      [] expr.type = "Infix" ->
            LET c1 == compile_expression(c, expr.left)
                c2 == IF c1.panicked THEN c1
                      ELSE compile_expression(c1, expr.right)
            IN  IF c2.panicked THEN c2
                ELSE add_instruction(c2, InfixOpCode(expr.op)).c
      [] expr.type = "Prefix" ->
            LET c1 == compile_expression(c, expr.value)
            IN  IF c1.panicked THEN c1
                ELSE add_instruction(c1, PrefixOpCode(expr.prefix)).c
      [] expr.type = "If" ->
            LET c1 == compile_expression(c, expr.condition)
                jmp_false == Len(c1.instructions)
                c2 == add_instruction(c1,
                          OpArg("OpJmpIfFalse", Placeholder)).c
                c3 == compile_statements(c2, expr.consequence)
                c4 == IF c3.panicked THEN c3 ELSE elide_last_pop(c3)
            IN  IF c1.panicked THEN c1
                ELSE IF c4.panicked THEN c4
                ELSE compile_alternative(c4, jmp_false, expr.alternative)
      [] OTHER -> Panic(c)      \* _ => unimplemented!()

\* (variant of compile_statement emitting no Pop after an expression)
compile_statement_mut(c, statement) ==
    CASE statement.type = "ExpressionStatement" ->
            compile_expression(c, statement.expr)
      [] statement.type = "Let" ->
            LET c1 == compile_expression(c, statement.value)
                defined == define(c1.table, statement.name, GLOBAL)
            IN  IF c1.panicked THEN c1
                ELSE add_instruction([c1 EXCEPT !.table = defined.table],
                                     OpArg("OpSetGlobal", defined.ret)).c
      [] OTHER -> Panic(c)
\* the body of the for loop of compile_statements
compile_statement(c, statement) ==
    CASE statement.type = "ExpressionStatement" ->
            LET c1 == compile_expression(c, statement.expr)
            IN  IF c1.panicked THEN c1
                ELSE add_instruction(c1, Op("OpPop")).c
      [] statement.type = "Let" ->
            LET c1 == compile_expression(c, statement.value)
                defined == define(c1.table, statement.name, GLOBAL)
            IN  IF c1.panicked THEN c1
                ELSE add_instruction([c1 EXCEPT !.table = defined.table],
                                     OpArg("OpSetGlobal", defined.ret)).c
      [] OTHER -> Panic(c)      \* _ => unimplemented!()

compile_statements(c, stmts) ==
    IF c.panicked \/ Len(stmts) = 0 THEN c
    ELSE compile_statements(compile_statement(c, Head(stmts)), Tail(stmts))

(***************************************************************************)
(* Bounds and inputs                                                       *)
(***************************************************************************)
MaxDefines == 5     \* define calls made on a standalone SymbolTable
MaxLets == 6        \* let statements in front of the last statement
MaxStmts == 3       \* statements of a short program
MaxBlock == 2       \* statements in a block of a conditional

Names == {"a", "b"}

\* all sequences over S of length at most n
RECURSIVE SeqsUpTo(_, _)
SeqsUpTo(S, n) ==
    IF n = 0 THEN {<< >>}
    ELSE LET shorter == SeqsUpTo(S, n - 1)
         IN  shorter \cup {Append(q, x) : q \in shorter, x \in S}

Atoms == {Expression_Int(1), Expression_Int(2), Boolean(TRUE), Boolean(FALSE)}

SimpleExprs ==
    Atoms
    \cup {Prefix(p, a) : p \in PrefixOp, a \in Atoms}
    \cup {Infix(l, op, r) : l \in Atoms, op \in Operator, r \in Atoms}
    \cup {Infix(Infix(Expression_Int(1), "MULTIPLY", Expression_Int(2)), op,
                Prefix("MINUS", Expression_Int(2))) : op \in Operator}

BlockStmts ==
    {ExpressionStatement(Expression_Int(1)),
     Let("a", Expression_Int(2)),
     ExpressionStatement(If(Boolean(FALSE),
                            <<Let("b", Boolean(TRUE))>>, << >>))}

Blocks == SeqsUpTo(BlockStmts, MaxBlock)

Conditions == {Boolean(TRUE), Infix(Expression_Int(1), "LESS", Expression_Int(2))}

IfExprs == {If(c, cons, alt) : c \in Conditions, cons \in Blocks, alt \in Blocks}

TopExprs == SimpleExprs \cup IfExprs \cup {Ident("a")}

TopStmts ==
    {ExpressionStatement(e) : e \in TopExprs}
    \cup {Let("b", e) : e \in TopExprs}
    \cup {Return(Expression_Int(1))}

\* k let statements
RECURSIVE Lets(_)
Lets(k) == IF k = 0 THEN << >> ELSE Append(Lets(k - 1), Let("a", Expression_Int(1)))

ShortStmts ==
    {ExpressionStatement(Expression_Int(1)),
     ExpressionStatement(Boolean(TRUE)),
     ExpressionStatement(Infix(Expression_Int(1), "PLUS", Expression_Int(2))),
     ExpressionStatement(If(Boolean(TRUE), <<ExpressionStatement(Expression_Int(1))>>,
                            <<ExpressionStatement(Expression_Int(2))>>)),
     Let("a", Expression_Int(1))}

\* the programs of the tests of compiler.rs
Src_3 == <<ExpressionStatement(Expression_Int(3))>>
Src_1_plus_2 ==
    <<ExpressionStatement(Infix(Expression_Int(1), "PLUS", Expression_Int(2)))>>
Src_if == <<ExpressionStatement(
              If(Boolean(TRUE), <<ExpressionStatement(Expression_Int(10))>>, << >>))>>
Src_if_else == <<ExpressionStatement(
                   If(Boolean(TRUE), <<ExpressionStatement(Expression_Int(10))>>,
                      <<ExpressionStatement(Expression_Int(20))>>))>>
Src_globals == <<Let("one", Expression_Int(1)), Let("two", Expression_Int(2))>>

TestPrograms == {Src_3, Src_1_plus_2, Src_if, Src_if_else, Src_globals}

Programs ==
    {Lets(k) \o <<s>> : k \in 0..MaxLets, s \in TopStmts}
    \cup SeqsUpTo(ShortStmts, MaxStmts)
    \cup TestPrograms

(***************************************************************************)
(* The state machines                                                      *)
(***************************************************************************)
CodeIdle ==
    /\ code_pc = "idle"
    /\ opcode = Op("OpPop")
    /\ op_bytes = << >>
    /\ operand_out = 0

SymIdle ==
    /\ symbols = SymbolTable_new.symbols
    /\ next_index = SymbolTable_new.next_index
    /\ sym_calls = << >>
    /\ sym_result = [op |-> "new"]

CompIdle ==
    /\ ast = << >>
    /\ done = 0
    /\ status = "idle"
    /\ instructions = << >>
    /\ constants = << >>

\* no Vm has been built
VmIdle ==
    /\ stack = << >>
    /\ stack_pointer = 0
    /\ ip = 0
    /\ vm_status = "idle"
    /\ vm_error = ""
    /\ overflow_checks = TRUE
    /\ previous = None

\* ---- SpecCode ---------------------------------------------------------
InitCode == CodeIdle /\ SymIdle /\ CompIdle /\ VmIdle

\* make_op(opcode)
MakeOp ==
    /\ code_pc = "idle"
    /\ \E oc \in OpCode(0..(U16 - 1)) :
          /\ opcode' = oc
          /\ op_bytes' = make_op(oc)
    /\ code_pc' = "encoded"
    /\ UNCHANGED <<operand_out, symVars, symHist, compVars, vmVars>>

\* two_u8_to_usize(bytes[1], bytes[2]) on an operand-bearing instruction
TwoU8ToUsize ==
    /\ code_pc = "encoded"
    /\ Len(op_bytes) >= 3
    /\ operand_out' = two_u8_to_usize(op_bytes[2], op_bytes[3])
    /\ code_pc' = "decoded"
    /\ UNCHANGED <<opcode, op_bytes, symVars, symHist, compVars, vmVars>>

NextCode == MakeOp \/ TwoU8ToUsize
SpecCode == InitCode /\ [][NextCode]_vars

\* ---- SpecSym ----------------------------------------------------------
InitSym == CodeIdle /\ SymIdle /\ CompIdle /\ VmIdle

Table == [symbols |-> symbols, next_index |-> next_index]

\* table.define(name, GLOBAL)
Define ==
    /\ Len(sym_calls) < MaxDefines
    /\ \E name \in Names :
          LET r == define(Table, name, GLOBAL)
          IN  /\ symbols' = r.table.symbols
              /\ next_index' = r.table.next_index
              /\ sym_calls' = Append(sym_calls, [name |-> name, ret |-> r.ret])
              /\ sym_result' = [op |-> "define", name |-> name, ret |-> r.ret]
    /\ UNCHANGED <<codeVars, compVars, vmVars>>

\* table.resolve(name)
Resolve ==
    /\ \E name \in Names :
          sym_result' = [op |-> "resolve", name |-> name,
                         ret |-> resolve(Table, name)]
    /\ UNCHANGED <<symVars, sym_calls, codeVars, compVars, vmVars>>

NextSym == Define \/ Resolve
SpecSym == InitSym /\ [][NextSym]_vars

\* ---- Spec -------------------------------------------------------------
\* from_source after lexer and parse: a new Compiler and the parsed program
Init ==
    /\ CodeIdle
    /\ VmIdle
    /\ sym_calls = << >>
    /\ sym_result = [op |-> "new"]
    /\ ast \in Programs
    /\ done = 0
    /\ status = "compiling"
    /\ instructions = Compiler_new.instructions
    /\ constants = Compiler_new.constants
    /\ symbols = Compiler_new.table.symbols
    /\ next_index = Compiler_new.table.next_index

\* the Compiler value held in the variables
Self ==
    [instructions |-> instructions, constants |-> constants,
     table |-> Table, panicked |-> FALSE]

\* one iteration of the loop of compile_statements over the program
CompileStatement ==
    /\ status = "compiling"
    /\ done < Len(ast)
    /\ LET c == compile_statement(Self, ast[done + 1])
       IN  IF c.panicked
           THEN /\ status' = "panicked"
                /\ UNCHANGED <<done, instructions, constants, symVars>>
           ELSE /\ instructions' = c.instructions
                /\ constants' = c.constants
                /\ symbols' = c.table.symbols
                /\ next_index' = c.table.next_index
                /\ done' = done + 1
                /\ UNCHANGED status
    /\ UNCHANGED <<ast, codeVars, symHist, vmVars>>

\* the loop is over: from_source returns compiler.byte_code
ReturnByteCode ==
    /\ status = "compiling"
    /\ done = Len(ast)
    /\ status' = "done"
    /\ UNCHANGED <<ast, done, instructions, constants, symVars, codeVars, symHist, vmVars>>

Next == CompileStatement \/ ReturnByteCode
Spec == Init /\ [][Next]_vars

(***************************************************************************)
(* Reading an instruction stream back                                      *)
(***************************************************************************)
\* the operand stored at bytes off+1, off+2 of the stream (off is 0-based)
OperandAt(stream, off) == stream[off + 2] * U8 + stream[off + 3]

\* the stream with the operand bytes of the instructions at offs zeroed
Masked(stream, offs) ==
    [j \in 1..Len(stream) |->
        IF \E off \in offs : j \in {off + 2, off + 3} THEN 0 ELSE stream[j]]

DropLast(stream) == SubSeq(stream, 1, Len(stream) - 1)

(***************************************************************************)
(* Claims about compiler/code.rs (SpecCode)                                *)
(***************************************************************************)
\* the tag table of the instruction set
TagTable ==
    [n \in NoOperandOps \cup OperandOps |->
        CASE n = "OpConstant" -> 1   [] n = "OpAdd" -> 2
          [] n = "OpSub" -> 3        [] n = "OpMul" -> 4
          [] n = "OpDiv" -> 5        [] n = "OpPop" -> 6
          [] n = "OpTrue" -> 7       [] n = "OpFalse" -> 8
          [] n = "OpGreater" -> 9    [] n = "OpLess" -> 10
          [] n = "OpEqual" -> 11     [] n = "OpNotEqual" -> 12
          [] n = "OpBang" -> 13      [] n = "OpMinus" -> 14
          [] n = "OpJmp" -> 15       [] n = "OpJmpIfFalse" -> 16
          [] n = "OpSetGlobal" -> 17 [] n = "OpGetGlobal" -> 18]

\* C1: make_op gives every opcode its fixed tag; an operand-less opcode is
\* exactly 1 byte, an operand-bearing one exactly the 3 bytes
\* [tag, operand >> 8, operand mod 256], whatever the operand.
C1_MakeOpEncoding ==
    code_pc # "idle" =>
        /\ op_bytes[1] = TagTable[opcode.op]
        /\ opcode.op \in NoOperandOps => op_bytes = <<TagTable[opcode.op]>>
        /\ opcode.op \in OperandOps =>
              op_bytes = <<TagTable[opcode.op], opcode.operand \div 256,
                           opcode.operand % 256>>

C1_Witness ==
    /\ code_pc = "encoded"
    /\ opcode = OpArg("OpJmpIfFalse", 65534)
    /\ op_bytes = <<16, 255, 254>>

\* C2: decoding bytes 1 and 2 of make_op(opcode(v)) with two_u8_to_usize
\* gives v back, for every u16 v and every operand-bearing opcode.
C2_RoundTrip ==
    code_pc = "decoded" => operand_out = opcode.operand

C2_Witness ==
    /\ code_pc = "decoded"
    /\ opcode = OpArg("OpSetGlobal", 65535)
    /\ op_bytes = <<17, 255, 255>>
    /\ operand_out = 65535

(***************************************************************************)
(* Claims about compiler/symbol_table.rs (SpecSym)                         *)
(***************************************************************************)
\* C3: on a fresh table the k-th define returns k - 1, whatever the names.
C3_DefineSequential ==
    /\ \A k \in 1..Len(sym_calls) : sym_calls[k].ret = k - 1
    /\ sym_result.op = "define" => sym_result.ret = Len(sym_calls) - 1

C3_Witness ==
    /\ Len(sym_calls) = 3
    /\ sym_calls[1].name = sym_calls[3].name
    /\ sym_calls[2].name # sym_calls[1].name
    /\ sym_result.op = "define"
    /\ sym_result.ret = 2

\* what the most recent define(name) returned, if there was one
LastDefined(name) ==
    LET ks == {k \in 1..Len(sym_calls) : sym_calls[k].name = name}
    IN  IF ks = {} THEN None
        ELSE Some(sym_calls[CHOOSE k \in ks : \A j \in ks : j <= k].ret)

\* C4: resolve(name) returns the index of the most recent define(name), or
\* None if there was none; no define returns an index returned before; and a
\* resolve call leaves the mapping and the next index unchanged.
C4_ResolveLatest ==
    /\ [](sym_result.op = "resolve" =>
            sym_result.ret = LastDefined(sym_result.name))
    /\ [](\A i, j \in 1..Len(sym_calls) :
            i # j => sym_calls[i].ret # sym_calls[j].ret)
    /\ [][sym_calls' = sym_calls =>
            (symbols' = symbols /\ next_index' = next_index)]_vars

C4_Witness ==
    /\ Len(sym_calls) = 3
    /\ sym_calls[1].name = "a"
    /\ sym_calls[2].name = "b"
    /\ sym_calls[3].name = "a"
    /\ sym_result = [op |-> "resolve", name |-> "a", ret |-> Some(2)]

(***************************************************************************)
(* Decoding a stream instruction by instruction                            *)
(***************************************************************************)
\* the width of an instruction, fixed by its tag
Width(tag) == IF tag \in {1, 15, 16, 17, 18} THEN 3 ELSE 1

\* the instructions of stream read from offset off: [offset, tag, operand,
\* ok]; reading stops at the first byte that is no tag, or at an
\* instruction cut short by the end of the stream, with ok = FALSE
RECURSIVE DecodeFrom(_, _)
DecodeFrom(stream, off) ==
    IF off >= Len(stream) THEN << >>
    ELSE LET tag == stream[off + 1]
         IN  IF tag \notin 1..18 \/ off + Width(tag) > Len(stream)
             THEN <<[offset |-> off, tag |-> tag, operand |-> 0, ok |-> FALSE]>>
             ELSE <<[offset |-> off, tag |-> tag,
                     operand |-> IF Width(tag) = 3 THEN OperandAt(stream, off)
                                 ELSE 0,
                     ok |-> TRUE]>>
                  \o DecodeFrom(stream, off + Width(tag))

Decode(stream) == DecodeFrom(stream, 0)

WellFormed(stream, pool) ==
    \A i \in 1..Len(Decode(stream)) :
        LET ins == Decode(stream)[i]
        IN  /\ ins.ok
            /\ ins.tag = 1 => ins.operand < Len(pool)

\* the offsets of the instructions with the given tag
OffsetsOf(stream, tag) ==
    {Decode(stream)[i].offset :
        i \in {j \in 1..Len(Decode(stream)) : Decode(stream)[j].tag = tag}}

(***************************************************************************)
(* Claims about compiler/compiler.rs (Spec)                                *)
(***************************************************************************)
AllExpressionStatements(prog) ==
    \A i \in 1..Len(prog) : prog[i].type = "ExpressionStatement"

\* the code of each expression of stmts, each followed by one Pop (0x06)
RECURSIVE ExpressionsThenPop(_, _)
ExpressionsThenPop(c, stmts) ==
    IF Len(stmts) = 0 THEN c
    ELSE ExpressionsThenPop(
            [compile_expression(c, Head(stmts).expr)
                EXCEPT !.instructions = @ \o <<6>>],
            Tail(stmts))

\* C5: a program of expression statements compiles, statement by statement
\* in source order, to the code of the expression followed by one Pop;
\* "3" gives Constant(0), Pop with pool [Int(3)] and "1 + 2" gives
\* Constant(0), Constant(1), Add, Pop with pool [Int(1), Int(2)].
C5_ExpressionStatementPop ==
    /\ (status \in {"compiling", "done"} /\ AllExpressionStatements(ast)) =>
          LET expected == ExpressionsThenPop(Compiler_new, SubSeq(ast, 1, done))
          IN  /\ instructions = expected.instructions
              /\ constants = expected.constants
    /\ (status = "done" /\ ast = Src_3) =>
          /\ instructions = <<1, 0, 0, 6>>
          /\ constants = <<Object_Int(3)>>
    /\ (status = "done" /\ ast = Src_1_plus_2) =>
          /\ instructions = <<1, 0, 0, 1, 0, 1, 2, 6>>
          /\ constants = <<Object_Int(1), Object_Int(2)>>

C5_Witness ==
    /\ status = "done"
    /\ Len(ast) = 3
    /\ AllExpressionStatements(ast)
    /\ ast[2].expr.type = "Infix"
    /\ ast[3].expr.type = "If"
    /\ instructions[Len(instructions)] = 6

\* the statement compiled by the next CompileStatement step, its expression,
\* and the width of the instruction that ends the statement (Pop, SetGlobal)
StepStmt == ast[done + 1]
StepExpr ==
    IF StepStmt.type = "ExpressionStatement" THEN StepStmt.expr
    ELSE StepStmt.value
StepEndWidth == IF StepStmt.type = "ExpressionStatement" THEN 1 ELSE 3

\* this step compiles a statement whose expression is a conditional
IfStep(withAlternative) ==
    /\ status = "compiling"
    /\ done < Len(ast)
    /\ done' = done + 1
    /\ StepStmt.type \in {"ExpressionStatement", "Let"}
    /\ StepExpr.type = "If"
    /\ (Len(StepExpr.alternative) > 0) <=> withAlternative

\* the compiler after the condition and the JumpIfFalse placeholder
AfterJumpIfFalse ==
    add_instruction(compile_expression(Self, StepExpr.condition),
                    OpArg("OpJmpIfFalse", Placeholder)).c
\* the offset of that JumpIfFalse
JumpIfFalseOffset == Len(compile_expression(Self, StepExpr.condition).instructions)
\* the compiler after the consequence block, before and after the elision
ConsequenceCompiled == compile_statements(AfterJumpIfFalse, StepExpr.consequence)
ConsequenceDone == elide_last_pop(ConsequenceCompiled)
\* the offset at which a Jump is emitted after the consequence
JumpOffset == Len(ConsequenceDone.instructions)
\* the compiler after the alternative block, before the elision
AlternativeCompiled ==
    compile_statements(
        add_instruction(ConsequenceDone, OpArg("OpJmp", Placeholder)).c,
        StepExpr.alternative)

\* C6: with a non-empty alternative the JumpIfFalse operand is the offset
\* right after the Jump (the first byte of the alternative) and the Jump
\* operand is the stream length after the alternative; 10 and 13 for
\* if(true) { 10 } else { 20 }.
C6_IfElseTargets ==
    /\ []((status = "done" /\ ast = Src_if_else) =>
            /\ OperandAt(instructions, 1) = 10
            /\ OperandAt(instructions, 7) = 13)
    /\ [][IfStep(TRUE) =>
            /\ instructions'[JumpIfFalseOffset + 1] = 16
            /\ instructions'[JumpOffset + 1] = 15
            /\ JumpOffset >= JumpIfFalseOffset + 3
            /\ OperandAt(instructions', JumpIfFalseOffset) = JumpOffset + 3
            /\ OperandAt(instructions', JumpOffset)
                  = Len(instructions') - StepEndWidth]_vars

C6_Witness ==
    /\ status = "done"
    /\ Len(ast) = 1
    /\ ast[1].type = "Let"
    /\ ast[1].value.type = "If"
    /\ ast[1].value.condition.type = "Infix"
    /\ Len(ast[1].value.consequence) = 2
    /\ Len(ast[1].value.alternative) = 1
    /\ Len(instructions) > 20

\* C7 as stated: in if (true) { 10 } else { 20 } the JumpIfFalse target is
\* the byte offset of the Jump instruction that follows the consequence.
C7_TargetIsJumpOffset ==
    (status = "done" /\ ast = Src_if_else) =>
        \A jif \in OffsetsOf(instructions, 16) :
            OperandAt(instructions, jif) \in OffsetsOf(instructions, 15)

\* C7 amended: in if (true) { 10 } else { 20 } the JumpIfFalse target is the
\* byte offset right after the Jump instruction that follows the
\* consequence, i.e. the offset of the Jump plus its width of 3.
C7_TargetIsAfterJump ==
    (status = "done" /\ ast = Src_if_else) =>
        /\ OffsetsOf(instructions, 16) = {1}
        /\ OffsetsOf(instructions, 15) = {7}
        /\ \A jif \in OffsetsOf(instructions, 16) :
              OperandAt(instructions, jif) - 3 \in OffsetsOf(instructions, 15)

C7_Witness ==
    /\ status = "done"
    /\ ast = Src_if_else
    /\ instructions = <<7, 16, 0, 10, 1, 0, 0, 15, 0, 13, 1, 0, 1, 6>>

\* C8: without an alternative the JumpIfFalse operand is the stream length
\* right after the consequence (after the elision of a trailing Pop) and no
\* Jump is emitted: nothing lies between the consequence and the instruction
\* that ends the statement; 7 for if(true) { 10 }.
C8_IfTarget ==
    /\ []((status = "done" /\ ast = Src_if) =>
            /\ instructions = <<7, 16, 0, 7, 1, 0, 0, 6>>
            /\ OperandAt(instructions, 1) = 7)
    /\ [][IfStep(FALSE) =>
            LET end == Len(instructions') - StepEndWidth
                compiled == ConsequenceCompiled.instructions
            IN  /\ instructions'[JumpIfFalseOffset + 1] = 16
                /\ OperandAt(instructions', JumpIfFalseOffset) = end
                /\ end \in {Len(compiled), Len(compiled) - 1}
                /\ SubSeq(instructions', JumpIfFalseOffset + 4, end)
                      = SubSeq(compiled, JumpIfFalseOffset + 4, end)
                /\ instructions'[end + 1] = IF StepEndWidth = 1 THEN 6 ELSE 17]_vars

C8_Witness ==
    /\ status = "done"
    /\ Len(ast) = 3
    /\ ast[3].type = "ExpressionStatement"
    /\ ast[3].expr.type = "If"
    /\ Len(ast[3].expr.consequence) = 2
    /\ Len(ast[3].expr.alternative) = 0
    /\ ast[3].expr.consequence[2].type = "Let"

\* the last instruction emitted for a block is Pop: the block ends in an
\* expression statement (a let ends in SetGlobal, an empty block emits nothing)
BlockEndsInPop(block) ==
    /\ Len(block) > 0
    /\ block[Len(block)].type = "ExpressionStatement"

\* what the elision is to leave of a compiled block
Elided(stream, block) == IF BlockEndsInPop(block) THEN DropLast(stream) ELSE stream

\* C9: after a consequence or alternative block the final byte of the stream
\* is removed if and only if the last instruction of the block is Pop; a
\* block ending in any other instruction is left byte for byte unchanged.
C9_ElisionOnlyOfPop ==
    [][(IfStep(TRUE) \/ IfStep(FALSE)) =>
        LET patched == IF Len(StepExpr.alternative) = 0
                       THEN {JumpIfFalseOffset}
                       ELSE {JumpIfFalseOffset, JumpOffset}
            body == Masked(SubSeq(instructions', 1,
                                  Len(instructions') - StepEndWidth), patched)
            consequence == Elided(ConsequenceCompiled.instructions,
                                  StepExpr.consequence)
            alternative == Elided(AlternativeCompiled.instructions,
                                  StepExpr.alternative)
        IN  /\ ConsequenceDone.instructions = consequence
            /\ IF Len(StepExpr.alternative) = 0
               THEN body = Masked(consequence, patched)
               ELSE body = Masked(alternative, patched)]_vars

\* C10: every stream returned by compile decodes from offset 0 into complete
\* instructions with tags of the table, ending exactly at the stream length,
\* with every Constant operand below the length of the constant pool.
C10_WellFormedStream ==
    status = "done" => WellFormed(instructions, constants)

\* this step compiles a top-level let statement
LetStep ==
    /\ status = "compiling"
    /\ done < Len(ast)
    /\ done' = done + 1
    /\ StepStmt.type = "Let"

\* the operands of the SetGlobal instructions of a stream, in stream order
RECURSIVE SetGlobalOperands(_)
SetGlobalOperands(decoded) ==
    IF Len(decoded) = 0 THEN << >>
    ELSE (IF Head(decoded).tag = 17 THEN <<Head(decoded).operand>> ELSE << >>)
         \o SetGlobalOperands(Tail(decoded))

\* the statements compiled so far are let statements binding simple values
OnlySimpleLets ==
    \A i \in 1..done : ast[i].type = "Let" /\ ast[i].value.type # "If"

\* C11: let name = value compiles to the code of value, then define(name),
\* then SetGlobal(slot) with the slot define returned, and no Pop; the i-th
\* let of a program of lets stores to slot i, and let one = 1; let two = 2;
\* gives Constant(0), SetGlobal(0), Constant(1), SetGlobal(1).
C11_LetSetGlobal ==
    /\ []((status = "done" /\ ast = Src_globals) =>
            instructions = <<1, 0, 0, 17, 0, 0, 1, 0, 1, 17, 0, 1>>)
    /\ []((status \in {"compiling", "done"} /\ OnlySimpleLets) =>
            /\ Len(SetGlobalOperands(Decode(instructions))) = done
            /\ \A i \in 1..done :
                  SetGlobalOperands(Decode(instructions))[i] = i - 1)
    /\ [][LetStep =>
            LET value == compile_expression(Self, StepStmt.value)
                slot == value.table.next_index
            IN  /\ instructions' = value.instructions
                                   \o <<17, slot \div 256, slot % 256>>
                /\ constants' = value.constants
                /\ symbols'[StepStmt.name] = Symbol(slot, "GLOBAL")
                /\ next_index' = slot + 1]_vars

C11_Witness ==
    /\ status = "done"
    /\ Len(ast) = 4
    /\ \A i \in 1..4 : ast[i].type = "Let"
    /\ ast[4].value.type = "Infix"
    /\ SubSeq(instructions, Len(instructions) - 2, Len(instructions)) = <<17, 0, 3>>

\* this step compiles a statement whose expression is an identifier
IdentStep ==
    /\ status = "compiling"
    /\ done < Len(ast)
    /\ StepStmt.type \in {"ExpressionStatement", "Let"}
    /\ StepExpr.type = "Ident"

\* C12: a reference to a name bound by an earlier let compiles to
\* GetGlobal(slot) with the slot resolve returns; a reference to a name never
\* defined fails the compilation and no bytecode is handed out.
C12_IdentGetGlobal ==
    [][IdentStep =>
        LET found == resolve(Table, StepExpr.name)
        IN  IF found = None
            THEN status' = "panicked"
            ELSE /\ status' = "compiling"
                 /\ SubSeq(instructions', Len(instructions) + 1,
                           Len(instructions) + 3)
                       = <<18, found.some \div 256, found.some % 256>>]_vars

(***************************************************************************)
(* Stack depth of a compiled statement (opcode semantics of spec 4.4)      *)
(***************************************************************************)
\* what an instruction adds to the stack depth: Constant, True, False and
\* GetGlobal push one value; the binary operators pop two and push one; Pop,
\* JumpIfFalse and SetGlobal pop one; Not, Negate and Jump leave the depth
StackEffect(tag) ==
    CASE tag \in {1, 7, 8, 18} -> 1
      [] tag \in {2, 3, 4, 5, 9, 10, 11, 12} -> -1
      [] tag \in {6, 16, 17} -> -1
      [] tag \in {13, 14, 15} -> 0

\* the net changes of depth over all paths from offset at to offset end,
\* each JumpIfFalse taken both ways; [ok |-> FALSE] for a path that leaves
\* the instructions of the statement
RECURSIVE NetEffects(_, _, _, _)
NetEffects(stream, at, end, net) ==
    IF at = end THEN {[ok |-> TRUE, net |-> net]}
    ELSE IF at > end \/ stream[at + 1] \notin 1..18
            \/ at + Width(stream[at + 1]) > end
         THEN {[ok |-> FALSE, net |-> net]}
    ELSE LET tag == stream[at + 1]
             next == at + Width(tag)
             after == net + StackEffect(tag)
             target == OperandAt(stream, at)
         IN  CASE tag = 15 ->
                    IF target <= at THEN {[ok |-> FALSE, net |-> net]}
                    ELSE NetEffects(stream, target, end, after)
               [] tag = 16 ->
                    IF target <= at THEN {[ok |-> FALSE, net |-> net]}
                    ELSE NetEffects(stream, next, end, after)
                         \cup NetEffects(stream, target, end, after)
               [] OTHER -> NetEffects(stream, next, end, after)

\* C13: the instructions of every complete statement the compiler accepts
\* leave the stack depth where it was, on the true path and on the false
\* path of every conditional alike.
C13_StatementNetZero ==
    [][(status = "compiling" /\ done' = done + 1) =>
        NetEffects(instructions', Len(instructions), Len(instructions'), 0)
            = {[ok |-> TRUE, net |-> 0]}]_vars

(***************************************************************************)
(* vm.rs: the stack machine                                                *)
(***************************************************************************)
STACK_SIZE == 2048

\* usize::MAX, the value 0 - 1 wraps to in a build without overflow checks;
\* it stands for 2^64 - 1 and is the largest integer the checker can hold
UsizeMax == 2147483647

Object_Boolean(b) == [type |-> "Boolean", bool |-> b]

\* a Vm value: the stack array, the stack pointer and the panic message of
\* the call in progress ("" while it has not panicked)
Fatal(vm, message) == [vm EXCEPT !.error = message]

\* self.stack[index] = obj; the slots at and above Len(stack) still hold the
\* zeroed bytes of Vm::new
Store(slots, index, obj) ==
    IF index < Len(slots) THEN [slots EXCEPT ![index + 1] = obj]
    ELSE Append(slots, obj)

\* a push that admits one slot too many
push_mut(vm, obj) ==
    IF vm.stack_pointer > STACK_SIZE THEN Fatal(vm, "Stack overflow")
    ELSE [vm EXCEPT !.stack = Store(vm.stack, vm.stack_pointer, obj),
                    !.stack_pointer = vm.stack_pointer + 1]

push(vm, obj) ==
    IF vm.stack_pointer >= STACK_SIZE THEN Fatal(vm, "Stack overflow")
    ELSE [vm EXCEPT !.stack = Store(vm.stack, vm.stack_pointer, obj),
                    !.stack_pointer = vm.stack_pointer + 1]

\* self.stack_pointer -= 1 is unchecked by the program: at 0 a build with
\* overflow checks panics on the subtraction, a build without them wraps to
\* usize::MAX and panics on the index
\* a pop that also clears the slots from the popped one on
pop_mut(vm) ==
    IF vm.stack_pointer = 0
    THEN IF overflow_checks
         THEN [vm |-> Fatal(vm, "attempt to subtract with overflow"),
               ret |-> None]
         ELSE [vm |-> Fatal([vm EXCEPT !.stack_pointer = UsizeMax],
                            "index out of bounds"),
               ret |-> None]
    ELSE [vm |-> [vm EXCEPT !.stack_pointer = vm.stack_pointer - 1,
                            !.stack = SubSeq(vm.stack, 1, vm.stack_pointer - 1)],
          ret |-> Some(vm.stack[vm.stack_pointer])]

pop(vm) ==
    IF vm.stack_pointer = 0
    THEN IF overflow_checks
         THEN [vm |-> Fatal(vm, "attempt to subtract with overflow"),
               ret |-> None]
         ELSE [vm |-> Fatal([vm EXCEPT !.stack_pointer = UsizeMax],
                            "index out of bounds"),
               ret |-> None]
    ELSE [vm |-> [vm EXCEPT !.stack_pointer = vm.stack_pointer - 1],
          ret |-> Some(vm.stack[vm.stack_pointer])]

Abs(n) == IF n < 0 THEN 0 - n ELSE n

\* a quotient rounded toward minus infinity
div_mut(left, right) ==
    IF right > 0 THEN left \div right ELSE (0 - left) \div (0 - right)

\* left / right on isize, right # 0: the quotient is rounded toward zero
div(left, right) ==
    IF (left < 0) = (right < 0) THEN Abs(left) \div Abs(right)
    ELSE 0 - (Abs(left) \div Abs(right))

\* the names in the panic messages of the operator arms
OpName(tag) ==
    CASE tag = 2 -> "OpAdd" [] tag = 3 -> "OpSub" [] tag = 4 -> "OpMul"
      [] tag = 5 -> "OpDiv" [] tag = 9 -> "OpGreater" [] tag = 10 -> "OpLess"
      [] tag = 11 -> "OpEqual" [] tag = 12 -> "OpNotEqual"
      [] tag = 13 -> "OpBang" [] tag = 14 -> "OpMinus"

\* an operand mismatch that pushes a default value and carries on
type_error_mut(vm, tag) == push(vm, Object_Int(0))

\* the `_ => panic!("Invalid Op.. operand")` arm of an operator
type_error(vm, tag) == Fatal(vm, "Invalid " \o OpName(tag) \o " operand")

\* Object::Int(left OP right) or Object::Boolean(left OP right)
apply(tag, left, right) ==
    CASE tag = 2 -> Object_Int(left + right)
      [] tag = 3 -> Object_Int(left - right)
      [] tag = 4 -> Object_Int(left * right)
      [] tag = 5 -> Object_Int(div(left, right))
      [] tag = 9 -> Object_Boolean(left > right)
      [] tag = 10 -> Object_Boolean(left < right)
      [] tag = 11 -> Object_Boolean(left = right)
      [] tag = 12 -> Object_Boolean(left # right)

\* the two pops bound the other way round
binary_mut(vm, tag) ==
    LET first == pop(vm)
    IN  IF first.ret = None THEN first.vm
        ELSE LET second == pop(first.vm)
             IN  IF second.ret = None THEN second.vm
                 ELSE LET left == first.ret.some
                          right == second.ret.some
                      IN  IF left.type = "Int" /\ right.type = "Int"
                          THEN IF tag = 5 /\ right.val = 0
                               THEN Fatal(second.vm, "attempt to divide by zero")
                               ELSE push(second.vm,
                                         apply(tag, left.val, right.val))
                          ELSE type_error(second.vm, tag)

\* match (self.pop(), self.pop()) { (Int(right), Int(left)) => push(..), .. }
\* of OpAdd .. OpDiv and OpGreater .. OpNotEqual: the first pop is the right
\* operand
binary(vm, tag) ==
    LET first == pop(vm)
    IN  IF first.ret = None THEN first.vm
        ELSE LET second == pop(first.vm)
             IN  IF second.ret = None THEN second.vm
                 ELSE LET right == first.ret.some
                          left == second.ret.some
                      IN  IF right.type = "Int" /\ left.type = "Int"
                          THEN IF tag = 5 /\ right.val = 0
                               THEN Fatal(second.vm, "attempt to divide by zero")
                               ELSE push(second.vm,
                                         apply(tag, left.val, right.val))
                          ELSE type_error(second.vm, tag)

\* OpBang: match self.pop() { Boolean(val) => push(Boolean(!val)), .. }
\* OpMinus: match self.pop() { Int(val) => push(Int(-val)), .. }
unary(vm, tag) ==
    LET popped == pop(vm)
    IN  IF popped.ret = None THEN popped.vm
        ELSE LET obj == popped.ret.some
             IN  IF tag = 13 /\ obj.type = "Boolean"
                 THEN push(popped.vm, Object_Boolean(~obj.bool))
                 ELSE IF tag = 14 /\ obj.type = "Int"
                 THEN push(popped.vm, Object_Int(0 - obj.val))
                 ELSE type_error(popped.vm, tag)

\* OpConstant: the two operand bytes and the constant are read by index,
\* and an index past the end panics
constant(vm, at) ==
    IF at + 2 >= Len(instructions) THEN Fatal(vm, "index out of bounds")
    ELSE LET const_index == two_u8_to_usize(instructions[at + 2],
                                            instructions[at + 3])
         IN  IF const_index >= Len(constants)
             THEN Fatal(vm, "index out of bounds")
             ELSE push(vm, constants[const_index + 1])

\* an unknown byte that is skipped
invalid_mut(vm) == vm

\* invalid => panic!("Invalid instruction: {}", invalid)
invalid(vm) == Fatal(vm, "Invalid instruction")

\* ip = 3 and ip = 1 in place of ip += 3 and ip += 1
next_ip_mut(at, width) == width

\* ip += 3 of OpConstant, ip += 1 of every other arm
next_ip(at, width) == at + width

\* match self.instructions[ip] { .. }: the Vm after the arm of the byte at
\* ip; no arm exists for the tags 0x0f .. 0x12
execute(vm, at) ==
    LET tag == instructions[at + 1]
    IN  CASE tag = 1 -> constant(vm, at)
          [] tag \in {2, 3, 4, 5, 9, 10, 11, 12} -> binary(vm, tag)
          [] tag = 6 -> pop(vm).vm
          [] tag = 7 -> push(vm, Object_Boolean(TRUE))
          [] tag = 8 -> push(vm, Object_Boolean(FALSE))
          [] tag \in {13, 14} -> unary(vm, tag)
          [] OTHER -> invalid(vm)

\* the Vm value held in the variables
VmSelf == [stack |-> stack, stack_pointer |-> stack_pointer, error |-> ""]

\* ---- the inputs of the Vm ----------------------------------------------
MaxHand == 3        \* bytes of a hand-built instruction stream
MaxVmStmts == 2     \* statements of a short program handed to the Vm

\* bytes of hand-built streams: 0x00 and 0x13 are no opcode tags
HandBytes == {0, 1, 2, 6, 7, 13, 14, 19}
HandConstants == <<Object_Int(1), Object_Boolean(TRUE)>>

\* STACK_SIZE + 1 times OpTrue
OverflowStream == [i \in 1..(STACK_SIZE + 1) |-> 7]

HandStreams == SeqsUpTo(HandBytes, MaxHand) \cup {OverflowStream}

ArithOps == {"PLUS", "MINUS", "MULTIPLY", "DIVIDE"}
ArithAtoms ==
    {Expression_Int(2), Expression_Int(7), Prefix("MINUS", Expression_Int(7))}
ArithInner == {Infix(l, op, r) : l \in ArithAtoms, op \in ArithOps, r \in ArithAtoms}
ArithExprs ==
    ArithInner
    \cup {Infix(l, op, r) : l \in ArithInner, op \in ArithOps, r \in ArithAtoms}
    \cup {Infix(l, op, r) : l \in ArithAtoms, op \in ArithOps, r \in ArithInner}

\* "2 * 2 + 6 / 2 - 9" of test_basics
Src_arith ==
    <<ExpressionStatement(
        Infix(Infix(Infix(Expression_Int(2), "MULTIPLY", Expression_Int(2)),
                    "PLUS",
                    Infix(Expression_Int(6), "DIVIDE", Expression_Int(2))),
              "MINUS", Expression_Int(9)))>>
\* "1; 2; 3;" of test_basics
Src_1_2_3 ==
    <<ExpressionStatement(Expression_Int(1)),
      ExpressionStatement(Expression_Int(2)),
      ExpressionStatement(Expression_Int(3))>>
\* "!!true" of test_prefixes
Src_bang_bang ==
    <<ExpressionStatement(Prefix("BANG", Prefix("BANG", Boolean(TRUE))))>>

VmTests == {Src_arith, Src_1_2_3, Src_bang_bang}

\* "if (c) { 10 } else { 20 }"
Src_if_else_of(c) ==
    <<ExpressionStatement(
        If(Boolean(c), <<ExpressionStatement(Expression_Int(10))>>,
           <<ExpressionStatement(Expression_Int(20))>>))>>

VmSources ==
    {<<ExpressionStatement(e)>> : e \in SimpleExprs \cup ArithExprs}
    \cup SeqsUpTo(ShortStmts, MaxVmStmts)
    \cup TestPrograms
    \cup VmTests
    \cup {Src_if_else_of(c) : c \in BOOLEAN}

\* ---- SpecVm -----------------------------------------------------------
\* Vm::new(bytecode) on the bytecode of a compiled source ...
NewCompiled ==
    \E p \in VmSources :
        LET c == compile_statements(Compiler_new, p)
        IN  /\ ~c.panicked
            /\ ast = p
            /\ done = Len(p)
            /\ status = "done"
            /\ instructions = c.instructions
            /\ constants = c.constants
            /\ symbols = c.table.symbols
            /\ next_index = c.table.next_index

\* ... or on a hand-built ByteCode
NewHandBuilt ==
    /\ ast = << >>
    /\ done = 0
    /\ status = "idle"
    /\ instructions \in HandStreams
    /\ constants = HandConstants
    /\ symbols = SymbolTable_new.symbols
    /\ next_index = SymbolTable_new.next_index

InitVm ==
    /\ CodeIdle
    /\ sym_calls = << >>
    /\ sym_result = [op |-> "new"]
    /\ NewCompiled \/ NewHandBuilt
    /\ stack = << >>
    /\ stack_pointer = 0
    /\ ip = 0
    /\ vm_status = "new"
    /\ vm_error = ""
    /\ overflow_checks \in BOOLEAN
    /\ previous = None

\* run is entered: let mut ip = 0
Run ==
    /\ vm_status = "new"
    /\ ip' = 0
    /\ vm_status' = "running"
    /\ UNCHANGED <<stack, stack_pointer, vm_error, overflow_checks, previous,
                   codeVars, symVars, symHist, compVars>>

\* one iteration of the loop of run
Dispatch ==
    /\ vm_status = "running"
    /\ ip < Len(instructions)
    /\ LET after == execute(VmSelf, ip)
           width == IF instructions[ip + 1] = 1 THEN 3 ELSE 1
       IN  /\ stack' = after.stack
           /\ stack_pointer' = after.stack_pointer
           /\ IF after.error # ""
              THEN /\ vm_status' = "panicked"
                   /\ vm_error' = after.error
                   /\ ip' = ip
              ELSE /\ ip' = next_ip(ip, width)
                   /\ UNCHANGED <<vm_status, vm_error>>
    /\ UNCHANGED <<overflow_checks, previous, codeVars, symVars, symHist,
                   compVars>>

\* the loop condition ip < self.instructions.len() fails: run returns
RunReturn ==
    /\ vm_status = "running"
    /\ ip >= Len(instructions)
    /\ vm_status' = "finished"
    /\ UNCHANGED <<stack, stack_pointer, ip, vm_error, overflow_checks,
                   previous, codeVars, symVars, symHist, compVars>>

NextVm == Run \/ Dispatch \/ RunReturn
SpecVm == InitVm /\ [][NextVm]_vars

\* run is one sequential loop: it keeps taking its next step
SpecVmLive == SpecVm /\ WF_vars(NextVm)

Halted == vm_status \in {"finished", "panicked"}

\* C14: a new Vm starts with instruction pointer 0 and stack pointer 0, and
\* run on the bytecode of any compiled program terminates: after finitely
\* many dispatch steps the instruction pointer equals the stream length or
\* the run has halted with a fatal error.
C14_RunTerminates ==
    /\ [][Run => ip' = 0 /\ stack_pointer' = 0 /\ stack' = << >>]_vars
    /\ []((status = "done" /\ vm_status = "new") => <>Halted)
    /\ [](vm_status = "finished" => ip = Len(instructions))
    /\ [](vm_status = "panicked" => vm_error # "")

C14_Witness ==
    /\ status = "done"
    /\ ast = Src_arith
    /\ vm_status = "finished"
    /\ ip = Len(instructions)
    /\ ip = 20

\* the number of values the arm of a tag pops
Pops(tag) ==
    CASE tag \in {2, 3, 4, 5, 9, 10, 11, 12} -> 2
      [] tag \in {6, 13, 14} -> 1
      [] OTHER -> 0

\* a dispatch step whose instruction pops more values than the stack holds
UnderflowStep ==
    /\ vm_status = "running"
    /\ ip < Len(instructions)
    /\ stack_pointer < Pops(instructions[ip + 1])
    /\ vm_status' = "panicked"

\* C15: in every reachable Vm state, for compiled and hand-built streams,
\* the stack pointer lies in 0..STACK_SIZE, and an instruction that pops at
\* stack pointer 0 halts the run with an explicit stack-underflow error,
\* without moving the stack pointer below 0 or indexing outside the stack.
C15_StackPointerInRange ==
    /\ [](stack_pointer \in 0..STACK_SIZE)
    /\ [][UnderflowStep => /\ vm_error' = "Stack underflow"
                           /\ stack_pointer' = 0]_vars

\* slot index of the stack array: the value written there, or "zeroed"
Slot(slots, index) ==
    IF index < Len(slots) THEN slots[index + 1] ELSE "zeroed"

\* the next dispatch step is a single push: OpTrue, OpFalse, or
\* OpConstant with its operand bytes and its constant in range
PushStep ==
    /\ vm_status = "running"
    /\ ip < Len(instructions)
    /\ \/ instructions[ip + 1] \in {7, 8}
       \/ /\ instructions[ip + 1] = 1
          /\ ip + 2 < Len(instructions)
          /\ OperandAt(instructions, ip) < Len(constants)

\* the object such a step pushes
Pushed ==
    CASE instructions[ip + 1] = 7 -> Object_Boolean(TRUE)
      [] instructions[ip + 1] = 8 -> Object_Boolean(FALSE)
      [] OTHER -> constants[OperandAt(instructions, ip) + 1]

\* C16: a push at stack pointer STACK_SIZE halts the run with the
\* stack-overflow error, writes no slot and leaves the stack pointer; a push
\* at a smaller stack pointer sp writes slot sp, and no other slot, and adds
\* exactly 1 to the stack pointer.
C16_PushOverflow ==
    [][PushStep =>
        IF stack_pointer = STACK_SIZE
        THEN /\ vm_status' = "panicked"
             /\ vm_error' = "Stack overflow"
             /\ stack' = stack
             /\ stack_pointer' = stack_pointer
        ELSE /\ vm_status' = "running"
             /\ stack_pointer' = stack_pointer + 1
             /\ Slot(stack', stack_pointer) = Pushed
             /\ Len(stack') <= STACK_SIZE
             /\ stack' = IF stack_pointer < Len(stack)
                         THEN [stack EXCEPT ![stack_pointer + 1] = Pushed]
                         ELSE stack \o <<Pushed>>]_vars

C16_Witness ==
    /\ vm_status = "panicked"
    /\ vm_error = "Stack overflow"
    /\ stack_pointer = STACK_SIZE
    /\ Len(stack) = STACK_SIZE
    /\ ip = STACK_SIZE

\* the next dispatch step reads a byte that is no opcode tag
UnknownTagStep ==
    /\ vm_status = "running"
    /\ ip < Len(instructions)
    /\ instructions[ip + 1] \notin 1..18

\* C17: when the byte at the instruction pointer is not an opcode tag of the
\* instruction set (such as 0x00 or 0x13), run halts with the fatal decoding
\* error, leaves the stack and the stack pointer as they were, and executes
\* no later instruction.
C17_UnknownTagHalts ==
    /\ [][UnknownTagStep => /\ vm_status' = "panicked"
                            /\ vm_error' = "Invalid instruction"
                            /\ stack' = stack
                            /\ stack_pointer' = stack_pointer
                            /\ ip' = ip]_vars
    /\ [][vm_error = "Invalid instruction" => UNCHANGED vars]_vars

C17_Witness ==
    /\ vm_status = "panicked"
    /\ vm_error = "Invalid instruction"
    /\ instructions = <<7, 19, 6>>
    /\ ip = 1
    /\ stack_pointer = 1
    /\ stack = <<Object_Boolean(TRUE)>>

BinaryTags == {2, 3, 4, 5, 9, 10, 11, 12}

\* the operands of the next instruction: the top of the stack and the
\* value below it
Top == stack[stack_pointer]
Below == stack[stack_pointer - 1]

\* the next dispatch step is a binary opcode on two integers (no zero divisor)
IntBinaryStep ==
    /\ vm_status = "running"
    /\ ip < Len(instructions)
    /\ instructions[ip + 1] \in BinaryTags
    /\ stack_pointer >= 2
    /\ Top.type = "Int" /\ Below.type = "Int"
    /\ ~(instructions[ip + 1] = 5 /\ Top.val = 0)

\* the next dispatch step is Not on a boolean or Negate on an integer
UnaryStep ==
    /\ vm_status = "running"
    /\ ip < Len(instructions)
    /\ stack_pointer >= 1
    /\ \/ instructions[ip + 1] = 13 /\ Top.type = "Boolean"
       \/ instructions[ip + 1] = 14 /\ Top.type = "Int"

\* C18: on integers each binary opcode takes the top of the stack as the
\* right operand and the value below it as the left operand and pushes
\* left OP right (an integer for Add, Sub, Mul, a boolean for Greater, Less,
\* Equal, NotEqual); Not replaces a boolean by its negation and Negate an
\* integer by its arithmetic negation; a binary opcode lowers the stack
\* depth by exactly 1 and a unary opcode leaves it.
C18_OperandOrder ==
    /\ [][IntBinaryStep =>
            LET tag == instructions[ip + 1]
                left == Below.val
                right == Top.val
                result == stack'[stack_pointer - 1]
            IN  /\ vm_status' = "running"
                /\ stack_pointer' = stack_pointer - 1
                /\ tag = 2 => result = Object_Int(left + right)
                /\ tag = 3 => result = Object_Int(left - right)
                /\ tag = 4 => result = Object_Int(left * right)
                /\ tag = 5 => result.type = "Int"
                /\ tag = 9 => result = Object_Boolean(left > right)
                /\ tag = 10 => result = Object_Boolean(left < right)
                /\ tag = 11 => result = Object_Boolean(left = right)
                /\ tag = 12 => result = Object_Boolean(left # right)]_vars
    /\ [][UnaryStep =>
            /\ vm_status' = "running"
            /\ stack_pointer' = stack_pointer
            /\ stack'[stack_pointer] =
                  IF instructions[ip + 1] = 13
                  THEN Object_Boolean(~Top.bool)
                  ELSE Object_Int(0 - Top.val)]_vars

C18_Witness ==
    /\ ast = <<ExpressionStatement(
                 Infix(Expression_Int(1), "MINUS", Expression_Int(2)))>>
    /\ vm_status = "running"
    /\ ip = 7
    /\ stack_pointer = 1
    /\ stack[1] = Object_Int(0 - 1)

\* the quotient of signed-integer division truncating toward zero: the q
\* with a = q * b + r whose remainder r is smaller than b in magnitude and
\* is zero or has the sign of a
Quotient(a, b) ==
    CHOOSE q \in (0 - Abs(a))..Abs(a) :
        \E r \in (1 - Abs(b))..(Abs(b) - 1) :
            /\ a = q * b + r
            /\ r = 0 \/ (r < 0) = (a < 0)

\* an expression over integer literals with unary minus and + - * /
RECURSIVE IsArith(_)
IsArith(expr) ==
    CASE expr.type = "Int" -> TRUE
      [] expr.type = "Prefix" -> expr.prefix = "MINUS" /\ IsArith(expr.value)
      [] expr.type = "Infix" ->
            expr.op \in ArithOps /\ IsArith(expr.left) /\ IsArith(expr.right)
      [] OTHER -> FALSE

\* its value in signed-integer arithmetic with truncating division
RECURSIVE Value(_)
Value(expr) ==
    CASE expr.type = "Int" -> expr.val
      [] expr.type = "Prefix" -> 0 - Value(expr.value)
      [] expr.op = "PLUS" -> Value(expr.left) + Value(expr.right)
      [] expr.op = "MINUS" -> Value(expr.left) - Value(expr.right)
      [] expr.op = "MULTIPLY" -> Value(expr.left) * Value(expr.right)
      [] expr.op = "DIVIDE" -> Quotient(Value(expr.left), Value(expr.right))

RECURSIVE NoZeroDivisor(_)
NoZeroDivisor(expr) ==
    CASE expr.type = "Int" -> TRUE
      [] expr.type = "Prefix" -> NoZeroDivisor(expr.value)
      [] OTHER -> /\ NoZeroDivisor(expr.left)
                  /\ NoZeroDivisor(expr.right)
                  /\ expr.op = "DIVIDE" => Value(expr.right) # 0

\* the Vm runs the program of one arithmetic expression statement
ArithProgram ==
    /\ status = "done"
    /\ Len(ast) = 1
    /\ ast[1].type = "ExpressionStatement"
    /\ IsArith(ast[1].expr)
    /\ NoZeroDivisor(ast[1].expr)

\* C19: compiling an arithmetic expression over integer literals with
\* + - * / (no zero divisor) and running the Vm yields, in slot 0, the value
\* of the expression in signed-integer arithmetic whose division truncates
\* toward zero (-7 / 2 is -3); "2 * 2 + 6 / 2 - 9" yields -2.
C19_TruncatingArithmetic ==
    /\ ArithProgram =>
          /\ vm_status # "panicked"
          /\ vm_status = "finished" =>
                /\ stack_pointer = 0
                /\ Slot(stack, 0) = Object_Int(Value(ast[1].expr))
    /\ (ast = Src_arith /\ vm_status = "finished") =>
          Slot(stack, 0) = Object_Int(0 - 2)

C19_Witness ==
    /\ ast = <<ExpressionStatement(
                 Infix(Prefix("MINUS", Expression_Int(7)), "DIVIDE",
                       Expression_Int(2)))>>
    /\ vm_status = "finished"
    /\ Slot(stack, 0) = Object_Int(0 - 3)

\* the next dispatch step applies an operator to operands of the wrong type
MismatchStep ==
    /\ vm_status = "running"
    /\ ip < Len(instructions)
    /\ \/ /\ instructions[ip + 1] \in BinaryTags
          /\ stack_pointer >= 2
          /\ ~(Top.type = "Int" /\ Below.type = "Int")
       \/ /\ instructions[ip + 1] = 14
          /\ stack_pointer >= 1
          /\ Top.type # "Int"
       \/ /\ instructions[ip + 1] = 13
          /\ stack_pointer >= 1
          /\ Top.type # "Boolean"

\* the runtime-type errors
TypeErrors ==
    [tag \in BinaryTags \cup {13, 14} |->
        CASE tag = 2 -> "Invalid OpAdd operand"
          [] tag = 3 -> "Invalid OpSub operand"
          [] tag = 4 -> "Invalid OpMul operand"
          [] tag = 5 -> "Invalid OpDiv operand"
          [] tag = 9 -> "Invalid OpGreater operand"
          [] tag = 10 -> "Invalid OpLess operand"
          [] tag = 11 -> "Invalid OpEqual operand"
          [] tag = 12 -> "Invalid OpNotEqual operand"
          [] tag = 13 -> "Invalid OpBang operand"
          [] tag = 14 -> "Invalid OpMinus operand"]

TypeErrorRaised == \E tag \in DOMAIN TypeErrors : vm_error = TypeErrors[tag]

\* C20: Add, Sub, Mul, Div, Greater, Less, Equal or NotEqual on operands
\* that are not both integers, Negate on a non-integer and Not on a
\* non-boolean halt the run with the runtime-type error of the operator:
\* the operands are popped, no slot is written and no instruction after the
\* failing one is executed.
C20_TypeMismatchHalts ==
    /\ [][MismatchStep =>
            /\ vm_status' = "panicked"
            /\ vm_error' = TypeErrors[instructions[ip + 1]]
            /\ stack' = stack
            /\ stack_pointer' = stack_pointer - Pops(instructions[ip + 1])
            /\ ip' = ip]_vars
    /\ [][TypeErrorRaised => UNCHANGED vars]_vars

C20_Witness ==
    /\ ast = <<ExpressionStatement(
                 Infix(Boolean(TRUE), "PLUS", Expression_Int(1)))>>
    /\ vm_status = "panicked"
    /\ vm_error = "Invalid OpAdd operand"
    /\ ip = 4
    /\ ip + 1 < Len(instructions)
    /\ stack = <<Object_Boolean(TRUE), Object_Int(1)>>

\* the next dispatch step reads a Jump / a JumpIfFalse with a boolean on top
JumpStep ==
    /\ vm_status = "running"
    /\ ip + 2 < Len(instructions)
    /\ instructions[ip + 1] = 15

JumpIfFalseStep ==
    /\ vm_status = "running"
    /\ ip + 2 < Len(instructions)
    /\ instructions[ip + 1] = 16
    /\ stack_pointer >= 1
    /\ Top.type = "Boolean"

\* C21: running the bytecode of "if (c) { 10 } else { 20 }" leaves Int(10)
\* when c is true and Int(20) when c is false: JumpIfFalse pops one boolean
\* and sets the instruction pointer to its operand only when the boolean is
\* false, Jump sets it to its operand always.
C21_ConditionalRuns ==
    /\ [](\A c \in BOOLEAN :
            ast = Src_if_else_of(c) =>
                /\ vm_status # "panicked"
                /\ vm_status = "finished" =>
                      Slot(stack, 0) = Object_Int(IF c THEN 10 ELSE 20))
    /\ [][JumpStep => /\ vm_status' = "running"
                      /\ ip' = OperandAt(instructions, ip)
                      /\ stack_pointer' = stack_pointer]_vars
    /\ [][JumpIfFalseStep =>
            /\ vm_status' = "running"
            /\ stack_pointer' = stack_pointer - 1
            /\ ip' = IF Top.bool THEN ip + 3
                     ELSE OperandAt(instructions, ip)]_vars

\* the next dispatch step reads a SetGlobal with a value on the stack / a
\* GetGlobal
SetGlobalStep ==
    /\ vm_status = "running"
    /\ ip + 2 < Len(instructions)
    /\ instructions[ip + 1] = 17
    /\ stack_pointer >= 1

GetGlobalStep ==
    /\ vm_status = "running"
    /\ ip + 2 < Len(instructions)
    /\ instructions[ip + 1] = 18

\* C22: running the bytecode of a sequence of let statements stores each
\* value in the global store: SetGlobal pops the top value and GetGlobal
\* pushes one, the run of "let one = 1; let two = 2;" completes with stack
\* depth 0 (and globals[0] = Int(1), globals[1] = Int(2), for which the Vm
\* has no field).
C22_GlobalsRun ==
    /\ [](ast = Src_globals =>
            /\ vm_status # "panicked"
            /\ vm_status = "finished" => stack_pointer = 0)
    /\ [][SetGlobalStep => /\ vm_status' = "running"
                           /\ stack_pointer' = stack_pointer - 1
                           /\ ip' = ip + 3]_vars
    /\ [][GetGlobalStep => /\ vm_status' = "running"
                           /\ stack_pointer' = stack_pointer + 1
                           /\ ip' = ip + 3]_vars

\* an expression of literals, prefix and infix operators only
RECURSIVE OperatorsOnly(_)
OperatorsOnly(expr) ==
    CASE expr.type \in {"Int", "Boolean"} -> TRUE
      [] expr.type = "Prefix" -> OperatorsOnly(expr.value)
      [] expr.type = "Infix" ->
            OperatorsOnly(expr.left) /\ OperatorsOnly(expr.right)
      [] OTHER -> FALSE

\* the value of such an expression whose operators meet operands of their
\* type: integers for - and the infix operators, a boolean for !
RECURSIVE Meaning(_)
Meaning(expr) ==
    CASE expr.type = "Int" -> Object_Int(expr.val)
      [] expr.type = "Boolean" -> Object_Boolean(expr.bool)
      [] expr.type = "Prefix" ->
            IF expr.prefix = "BANG"
            THEN Object_Boolean(~Meaning(expr.value).bool)
            ELSE Object_Int(0 - Meaning(expr.value).val)
      [] expr.type = "Infix" ->
            LET left == Meaning(expr.left).val
                right == Meaning(expr.right).val
            IN  CASE expr.op = "PLUS" -> Object_Int(left + right)
                  [] expr.op = "MINUS" -> Object_Int(left - right)
                  [] expr.op = "MULTIPLY" -> Object_Int(left * right)
                  [] expr.op = "DIVIDE" -> Object_Int(Quotient(left, right))
                  [] expr.op = "GREATER" -> Object_Boolean(left > right)
                  [] expr.op = "LESS" -> Object_Boolean(left < right)
                  [] expr.op = "EQUAL" -> Object_Boolean(left = right)
                  [] expr.op = "NEQUAL" -> Object_Boolean(left # right)

\* the Vm runs a compiled program of one or more expression statements over
\* literals and operators
OperatorProgram ==
    /\ status = "done"
    /\ Len(ast) >= 1
    /\ \A i \in 1..Len(ast) :
          /\ ast[i].type = "ExpressionStatement"
          /\ OperatorsOnly(ast[i].expr)

\* the next dispatch step is a Pop of a non-empty stack
PopStep ==
    /\ vm_status = "running"
    /\ ip < Len(instructions)
    /\ instructions[ip + 1] = 6
    /\ stack_pointer >= 1

\* C23: after run completes on a compiled program of expression statements
\* over literals, prefix and infix operators, the stack pointer is 0 and slot
\* 0 still holds the value of the last expression statement: Pop lowers the
\* stack pointer and leaves every slot ("1; 2; 3;" leaves Int(3) in slot 0).
C23_PopKeepsSlot ==
    /\ []((OperatorProgram /\ vm_status = "finished") =>
            /\ stack_pointer = 0
            /\ Slot(stack, 0) = Meaning(ast[Len(ast)].expr))
    /\ [][PopStep => /\ stack' = stack
                     /\ stack_pointer' = stack_pointer - 1
                     /\ vm_status' = "running"]_vars

C23_Witness ==
    /\ ast = Src_1_2_3
    /\ vm_status = "finished"
    /\ stack_pointer = 0
    /\ Slot(stack, 0) = Object_Int(3)

\* ---- SpecVmTwice ------------------------------------------------------
\* a Vm that inherits the stack and the stack pointer of the Vm before it
Vm_new_mut ==
    [stack |-> stack, stack_pointer |-> stack_pointer, error |-> ""]

\* Vm::new: the stack array all zeroed and stack_pointer 0; nothing but the
\* ByteCode goes into the new Vm
Vm_new == [stack |-> << >>, stack_pointer |-> 0, error |-> ""]

\* what is seen of a Vm after run
Outcome ==
    [stack |-> stack, stack_pointer |-> stack_pointer, ip |-> ip,
     vm_status |-> vm_status, vm_error |-> vm_error]

\* the first Vm has halted: a second Vm is constructed on the same ByteCode
NewAgain ==
    /\ Halted
    /\ previous = None
    /\ previous' = Some(Outcome)
    /\ stack' = Vm_new.stack
    /\ stack_pointer' = Vm_new.stack_pointer
    /\ vm_error' = Vm_new.error
    /\ vm_status' = "new"
    /\ ip' = 0
    /\ UNCHANGED <<overflow_checks, codeVars, symVars, symHist, compVars>>

NextVmTwice == NextVm \/ NewAgain
SpecVmTwice == InitVm /\ [][NextVmTwice]_vars

RECURSIVE LiteralsOf(_), LiteralsOfBlock(_)
LiteralsOf(expr) ==
    CASE expr.type = "Int" -> <<Object_Int(expr.val)>>
      [] expr.type = "Prefix" -> LiteralsOf(expr.value)
      [] expr.type = "Infix" -> LiteralsOf(expr.left) \o LiteralsOf(expr.right)
      [] expr.type = "If" ->
            LiteralsOf(expr.condition) \o LiteralsOfBlock(expr.consequence)
                \o LiteralsOfBlock(expr.alternative)
      [] OTHER -> << >>

LiteralsOfBlock(stmts) ==
    IF Len(stmts) = 0 THEN << >>
    ELSE (IF Head(stmts).type = "ExpressionStatement"
          THEN LiteralsOf(Head(stmts).expr)
          ELSE LiteralsOf(Head(stmts).value))
         \o LiteralsOfBlock(Tail(stmts))

\* the operands of the Constant instructions of a decoded stream, in order
RECURSIVE ConstantOperands(_)
ConstantOperands(decoded) ==
    IF Len(decoded) = 0 THEN << >>
    ELSE (IF Head(decoded).tag = 1 THEN <<Head(decoded).operand>> ELSE << >>)
         \o ConstantOperands(Tail(decoded))

\* the tags 7 and 8 count the boolean literals
RECURSIVE BooleansOf(_), BooleansOfBlock(_)
BooleansOf(expr) ==
    CASE expr.type = "Boolean" -> 1
      [] expr.type = "Prefix" -> BooleansOf(expr.value)
      [] expr.type = "Infix" -> BooleansOf(expr.left) + BooleansOf(expr.right)
      [] expr.type = "If" ->
            BooleansOf(expr.condition) + BooleansOfBlock(expr.consequence)
                + BooleansOfBlock(expr.alternative)
      [] OTHER -> 0

BooleansOfBlock(stmts) ==
    IF Len(stmts) = 0 THEN 0
    ELSE (IF Head(stmts).type = "ExpressionStatement"
          THEN BooleansOf(Head(stmts).expr)
          ELSE BooleansOf(Head(stmts).value))
         + BooleansOfBlock(Tail(stmts))

Compiled == SubSeq(ast, 1, done)

\* the stream can be read instruction by instruction to its end (a stream
\* cut short inside an instruction cannot)
Decodes(stream) == \A i \in 1..Len(Decode(stream)) : Decode(stream)[i].ok

\* C25: the constant pool is the sequence of the integer literals of the
\* compiled statements in depth-first, left-to-right order, one entry per
\* occurrence; the n-th literal compiles to Constant(n), counting from 0;
\* boolean literals compile to True / False and add no entry.
C25_ConstantPool ==
    (status \in {"compiling", "done"}) =>
        /\ constants = LiteralsOfBlock(Compiled)
        /\ \A v \in {1, 2} :
              LET c == compile_expression(Self, Expression_Int(v))
                  n == Len(constants)
              IN  /\ c.constants = Append(constants, Object_Int(v))
                  /\ c.instructions = instructions \o <<1, n \div U8, n % U8>>
        /\ \A b \in BOOLEAN :
              LET c == compile_expression(Self, Boolean(b))
              IN  /\ c.constants = constants
                  /\ c.instructions = instructions \o <<IF b THEN 7 ELSE 8>>
        /\ Decodes(instructions) =>
              /\ ConstantOperands(Decode(instructions))
                    = [i \in 1..Len(constants) |-> i - 1]
              /\ Cardinality(OffsetsOf(instructions, 7))
                    + Cardinality(OffsetsOf(instructions, 8))
                    = BooleansOfBlock(Compiled)

C25_Witness ==
    /\ status = "done"
    /\ Len(ast) = 1
    /\ ast[1].type = "ExpressionStatement"
    /\ ast[1].expr.type = "If"
    /\ Decodes(instructions)
    /\ constants = <<Object_Int(1), Object_Int(1), Object_Int(2), Object_Int(1)>>
    /\ BooleansOfBlock(ast) = 1

\* the opcode bytes of the operators
InfixTag(op) ==
    CASE op = "PLUS" -> 2 [] op = "MINUS" -> 3 [] op = "MULTIPLY" -> 4
      [] op = "DIVIDE" -> 5 [] op = "GREATER" -> 9 [] op = "LESS" -> 10
      [] op = "EQUAL" -> 11 [] op = "NEQUAL" -> 12
PrefixTag(prefix) == IF prefix = "MINUS" THEN 14 ELSE 13

\* the postfix code of an expression of literals and operators when the
\* pool holds n constants: left operand, right operand, operator
RECURSIVE Postfix(_, _)
Postfix(expr, n) ==
    CASE expr.type = "Int" -> <<1, n \div U8, n % U8>>
      [] expr.type = "Boolean" -> <<IF expr.bool THEN 7 ELSE 8>>
      [] expr.type = "Prefix" ->
            Postfix(expr.value, n) \o <<PrefixTag(expr.prefix)>>
      [] expr.type = "Infix" ->
            Postfix(expr.left, n)
                \o Postfix(expr.right, n + Len(LiteralsOf(expr.left)))
                \o <<InfixTag(expr.op)>>

\* this step compiles a statement whose expression has literals and
\* operators only
OperatorStep ==
    /\ status = "compiling"
    /\ done < Len(ast)
    /\ StepStmt.type \in {"ExpressionStatement", "Let"}
    /\ OperatorsOnly(StepExpr)

\* C26: operators are emitted in postfix order: for an infix expression the
\* code of the left operand, the code of the right operand, then the one
\* opcode of the operator (+ Add, - Sub, * Mul, / Div, > Greater, < Less,
\* == Equal, != NotEqual); for a prefix expression the code of the operand,
\* then Negate for - or Not for !.
C26_PostfixOrder ==
    [][OperatorStep =>
        /\ status' = "compiling"
        /\ SubSeq(instructions', 1, Len(instructions') - StepEndWidth)
              = instructions \o Postfix(StepExpr, Len(constants))]_vars

C26_Witness ==
    /\ done = 1
    /\ ast[1] = ExpressionStatement(
                    Infix(Infix(Expression_Int(1), "MULTIPLY", Expression_Int(2)),
                          "LESS", Prefix("MINUS", Expression_Int(2))))
    /\ instructions = <<1, 0, 0, 1, 0, 1, 4, 1, 0, 2, 14, 10, 6>>

\* opcodes handed to replace_op: jumps with several operands, and two
\* opcodes without operand
ReplaceOps ==
    {OpArg(n, v) : n \in {"OpJmp", "OpJmpIfFalse"},
                   v \in {0, Placeholder, Len(instructions)}}
    \cup {Op("OpPop"), Op("OpAdd")}

\* replace_op(pos, oc) on the stream of the state keeps its length, writes
\* the bytes of oc at pos .. pos + width - 1 and leaves every other byte,
\* the pool and the symbol table
ReplaceFrame(pos, oc) ==
    LET r == replace_op(Self, pos, oc)
        width == Len(make_op(oc))
    IN  /\ ~r.panicked
        /\ Len(r.instructions) = Len(instructions)
        /\ \A j \in 1..Len(instructions) :
              (j <= pos \/ j > pos + width) =>
                  r.instructions[j] = instructions[j]
        /\ SubSeq(r.instructions, pos + 1, pos + width) = make_op(oc)
        /\ r.constants = constants
        /\ r.table = Table

\* C27: replace_op(pos, op) with pos at the first byte of an instruction of
\* the width of op leaves the stream length, changes only the bytes at
\* pos .. pos + width - 1 (to those of op), and leaves every other byte and
\* the constant pool, so that the targets patched earlier stay as they are.
C27_ReplaceOpFrame ==
    (status \in {"compiling", "done"}) =>
        \A i \in 1..Len(Decode(instructions)) :
            LET ins == Decode(instructions)[i]
            IN  ins.ok =>
                  \A oc \in ReplaceOps :
                      Len(make_op(oc)) = Width(ins.tag) =>
                          ReplaceFrame(ins.offset, oc)

C27_Witness ==
    /\ status = "done"
    /\ ast = Src_if_else
    /\ instructions = <<7, 16, 0, 10, 1, 0, 0, 15, 0, 13, 1, 0, 1, 6>>
    /\ replace_op(Self, 7, OpArg("OpJmp", Placeholder)).instructions
          = <<7, 16, 0, 10, 1, 0, 0, 15, 39, 15, 1, 0, 1, 6>>

\* the offsets at which the instructions of a stream start
InstructionStarts(stream) ==
    {Decode(stream)[i].offset : i \in 1..Len(Decode(stream))}

\* every jump of the stream goes forward to an instruction start or to the
\* end of the stream
JumpsForward(stream) ==
    /\ Decodes(stream)
    /\ \A i \in 1..Len(Decode(stream)) :
          LET ins == Decode(stream)[i]
          IN  ins.tag \in {15, 16} =>
                /\ ins.operand > ins.offset
                /\ ins.operand <= Len(stream)
                /\ ins.operand = Len(stream)
                      \/ ins.operand \in InstructionStarts(stream)
                /\ ins.operand # Placeholder

\* C28: in every stream the compiler returns, nested conditionals included,
\* each Jump and JumpIfFalse operand is greater than the offset of its
\* instruction, at most the stream length, and the offset of the first byte
\* of an instruction or the stream end; no placeholder operand is left.
C28_JumpsForward == status = "done" => JumpsForward(instructions)

\* ---- SpecWide ---------------------------------------------------------
\* from_source on programs whose stream or pool passes the range of a u16:
\* the compiler after the first k statements of a long program
MaxOver == 2        \* statements by which a long prefix passes the u16 range

\* s repeated n times
RECURSIVE Rep(_, _)
Rep(s, n) ==
    IF n = 0 THEN << >>
    ELSE IF n % 2 = 0 THEN LET half == Rep(s, n \div 2) IN half \o half
    ELSE s \o Rep(s, n - 1)

\* Constant(a), Pop, Constant(a + 1), Pop, .. , Constant(b - 1), Pop, the
\* operands kept to the two bytes make_op writes
RECURSIVE ConstantPops(_, _)
ConstantPops(a, b) ==
    IF a >= b THEN << >>
    ELSE IF b - a = 1 THEN <<1, (a \div U8) % U8, a % U8, 6>>
    ELSE ConstantPops(a, (a + b) \div 2) \o ConstantPops((a + b) \div 2, b)

\* "true;" k times, and what the compiler holds after compiling it
TruePrefix(k) == [i \in 1..k |-> ExpressionStatement(Boolean(TRUE))]
TrueStream(k) == Rep(<<7, 6>>, k)

\* "1;" k times, and what the compiler holds after compiling it
OnePrefix(k) == [i \in 1..k |-> ExpressionStatement(Expression_Int(1))]
OneStream(k) == ConstantPops(0, k)
OnePool(k) == Rep(<<Object_Int(1)>>, k)

\* the statements that follow the prefix
WideIfs ==
    {If(Boolean(TRUE), <<ExpressionStatement(Expression_Int(1))>>, << >>),
     If(Boolean(TRUE), <<ExpressionStatement(Expression_Int(1))>>,
        <<ExpressionStatement(Expression_Int(2))>>),
     If(Infix(Expression_Int(1), "LESS", Expression_Int(2)),
        <<Let("a", Expression_Int(2))>>,
        <<ExpressionStatement(Expression_Int(1))>>)}

WideTails ==
    {<<ExpressionStatement(e)>> : e \in Atoms \cup WideIfs}
    \cup {<<ExpressionStatement(Boolean(TRUE)), ExpressionStatement(e)>> :
            e \in {Expression_Int(1)} \cup WideIfs}

PoolTails ==
    {<<ExpressionStatement(Expression_Int(2))>>,
     <<ExpressionStatement(Boolean(TRUE)),
       ExpressionStatement(Infix(Expression_Int(1), "PLUS", Expression_Int(2)))>>}

\* the compiler in the middle of the loop of compile_statements; here ast
\* holds the statements that follow the prefix, and done counts those
InitWide ==
    /\ CodeIdle
    /\ VmIdle
    /\ sym_calls = << >>
    /\ sym_result = [op |-> "new"]
    /\ symbols = Compiler_new.table.symbols
    /\ next_index = Compiler_new.table.next_index
    /\ status = "compiling"
    /\ done = 0
    /\ \/ /\ \E k \in ((U16 \div 2) - 4)..((U16 \div 2) + MaxOver) :
                instructions = TrueStream(k)
          /\ constants = << >>
          /\ ast \in WideTails
       \/ /\ \E k \in (U16 - 1)..(U16 + MaxOver) :
                /\ instructions = OneStream(k)
                /\ constants = OnePool(k)
          /\ ast \in PoolTails

SpecWide == InitWide /\ [][Next]_vars


\* this step compiles the expression statement of an integer literal
LiteralStep ==
    /\ status = "compiling"
    /\ done < Len(ast)
    /\ done' = done + 1
    /\ StepStmt.type = "ExpressionStatement"
    /\ StepExpr.type = "Int"

\* C29: every operand the compiler writes is the untruncated quantity it
\* stands for: add_instruction returns the offset written, add_constant the
\* pool position, a Constant carries the pool position of its literal and a
\* patched jump the byte length of the stream at patch time, also when the
\* stream is longer than 65535 bytes or the pool holds more than 65536
\* entries.
C29_NoTruncation ==
    /\ [](status = "compiling" =>
            /\ add_instruction(Self, Op("OpPop")).ret = Len(instructions)
            /\ add_constant(Self, Object_Int(1)).ret = Len(constants))
    /\ [][LiteralStep =>
            OperandAt(instructions', Len(instructions)) = Len(constants)]_vars
    /\ [][IfStep(FALSE) =>
            OperandAt(instructions', JumpIfFalseOffset)
                = Len(instructions') - StepEndWidth]_vars
    /\ [][IfStep(TRUE) =>
            /\ OperandAt(instructions', JumpIfFalseOffset) = JumpOffset + 3
            /\ OperandAt(instructions', JumpOffset)
                  = Len(instructions') - StepEndWidth]_vars


\* ---- the tree-walking evaluator ---------------------------------------
\* a panic of the evaluator, carried as the result
EvalPanic(message) == [type |-> "Panic", message |-> message]

\* the match on (eval_expression(left), eval_expression(right)) of an infix
\* operator: the left operand is evaluated first and a panic of an operand
\* is the panic of the whole
eval_infix(op, l, r) ==
    IF l.type = "Panic" THEN l
    ELSE IF r.type = "Panic" THEN r
    ELSE LET ints == l.type = "Int" /\ r.type = "Int"
             bools == l.type = "Boolean" /\ r.type = "Boolean"
         IN  CASE op = "PLUS" ->
                    IF ints THEN Object_Int(l.val + r.val)
                    ELSE EvalPanic("'+' operator only valid on integers")
               [] op = "MINUS" ->
                    IF ints THEN Object_Int(l.val - r.val)
                    ELSE EvalPanic("'-' operator only valid on integers")
               [] op = "MULTIPLY" ->
                    IF ints THEN Object_Int(l.val * r.val)
                    ELSE EvalPanic("'*' operator only valid on integers")
               [] op = "DIVIDE" ->
                    IF ints
                    THEN IF r.val = 0 THEN EvalPanic("attempt to divide by zero")
                         ELSE Object_Int(div(l.val, r.val))
                    ELSE EvalPanic("'/' operator only valid on integers")
               [] op = "EQUAL" ->
                    IF ints THEN Object_Boolean(l.val = r.val)
                    ELSE IF bools THEN Object_Boolean(l.bool = r.bool)
                    ELSE EvalPanic("Problem in Infix equality check")
               [] op = "NEQUAL" ->
                    IF ints THEN Object_Boolean(l.val # r.val)
                    ELSE IF bools THEN Object_Boolean(l.bool # r.bool)
                    ELSE EvalPanic("Problem in Infix not equality check")
               [] op = "GREATER" ->
                    IF ints THEN Object_Boolean(l.val > r.val)
                    ELSE EvalPanic("Problem in Infix greater than check")
               [] op = "LESS" ->
                    IF ints THEN Object_Boolean(l.val < r.val)
                    ELSE EvalPanic("Problem in Infix less than check")

\* eval_expression on literals, prefix and infix expressions
RECURSIVE eval_expression(_)
eval_expression(exp) ==
    CASE exp.type = "Int" -> Object_Int(exp.val)
      [] exp.type = "Boolean" -> Object_Boolean(exp.bool)
      [] exp.type = "Prefix" ->
            LET value == eval_expression(exp.value)
            IN  IF value.type = "Panic" THEN value
                ELSE IF exp.prefix = "BANG"
                THEN IF value.type = "Boolean"
                     THEN Object_Boolean(~value.bool)
                     ELSE EvalPanic("'!' operator only valid for boolean types")
                ELSE IF value.type = "Int"
                     THEN Object_Int(0 - value.val)
                     ELSE EvalPanic("'-' operator only valid for integer types")
      [] exp.type = "Infix" ->
            eval_infix(exp.op, eval_expression(exp.left),
                       eval_expression(exp.right))

\* the program handed to the Vm is one expression statement over literals,
\* prefix and infix operators
OneExpression ==
    /\ status = "done"
    /\ Len(ast) = 1
    /\ ast[1].type = "ExpressionStatement"
    /\ OperatorsOnly(ast[1].expr)

\* C30: on the program of one expression statement over literals, prefix
\* and infix operators the Vm and the evaluator agree: a run that completes
\* leaves as last popped value the value eval_expression returns, a run
\* that panics is on an expression on which eval_expression panics, and
\* every run ends one way or the other (== and != on two booleans
\* included).
C30_VmAgreesWithEval ==
    /\ []((OneExpression /\ vm_status = "finished") =>
            Slot(stack, 0) = eval_expression(ast[1].expr))
    /\ []((OneExpression /\ vm_status = "panicked") =>
            eval_expression(ast[1].expr).type = "Panic")
    /\ []((OneExpression /\ vm_status = "new") => <>Halted)

====
